---- MODULE Spec2Model ----
(***************************************************************************)
(* CollapsibleGrid (src/src/CollapsibleGrid.tsx): a React component with   *)
(* two pieces of state, the set of expanded columns and the set of open    *)
(* rows.  The file holds two variants of the component: the "swap" variant *)
(* (lines 26-245) and the "permissive" variant (lines 317-469).  They      *)
(* differ in toggle and in the grid templates.                             *)
(*                                                                         *)
(* A header is a record [id, title]; a title is a sequence of characters.  *)
(* A row is modelled by its id: the blocks of a row are only rendered.     *)
(***************************************************************************)
EXTENDS Integers, Sequences, FiniteSets

VARIABLES
    variant,        \* which of the two components of the file is mounted
    headers,        \* props.headers: sequence of [id, title]
    rows,           \* props.rows: sequence of row ids
    expanded,       \* useState expanded: set of header ids
    openRows,       \* useState openRows: set of row ids
    effectPending,  \* the [rows] effect is scheduled and has not run yet
    prevRowIds,     \* ids of props.rows of the previous render ({} before mount)
    prevOpen,       \* openRows when props.rows last changed ({} before mount)
    lastId          \* id passed to the latest toggle call (NoId: none yet)

vars == <<variant, headers, rows, expanded, openRows, effectPending,
          prevRowIds, prevOpen, lastId>>

colVars == <<expanded, lastId>>
rowVars == <<rows, openRows, effectPending, prevRowIds, prevOpen>>

(***************************************************************************)
(* Bounds of the model.                                                    *)
(***************************************************************************)
MaxHeaders == 4
MaxRows == 3

HeaderIds == 1..MaxHeaders
RowIds == 1..MaxRows
NoId == 0

Variants == {"swap", "permissive"}

\* Titles the headers are drawn from: a one-character title and "Status".
Titles == { <<"S">>, <<"S", "t", "a", "t", "u", "s">> }

Range(s) == {s[i] : i \in DOMAIN s}

Injective(s) == \A i, j \in DOMAIN s : s[i] = s[j] => i = j

\* Sequences without repetition over S, of length 0..n.
DistinctSeqs(S, n) == {s \in UNION {[1..k -> S] : k \in 0..n} : Injective(s)}

\* Header lists with unique ids (type HeaderCell[], ids unique by contract).
HeaderLists ==
    UNION { {[i \in 1..Len(ids) |-> [id |-> ids[i], title |-> ts[i]]] :
                ts \in [1..Len(ids) -> Titles]} :
            ids \in DistinctSeqs(HeaderIds, MaxHeaders) }

\* Row lists with unique ids (type Row[]).
RowLists == DistinctSeqs(RowIds, MaxRows)

\* headers.map((h) => h.id)
MapId(hs) == [i \in DOMAIN hs |-> hs[i].id]

HeaderIdSet == Range(MapId(headers))
RowIdSet == Range(rows)

(***************************************************************************)
(* The component's functions.                                              *)
(***************************************************************************)
MIN_EXPANDED == 2

\* initialExpanded with slice(1) for slice(0, -1): the first is collapsed.
initialExpanded_DropFirst(hs) ==
    IF Len(hs) <= MIN_EXPANDED
    THEN MapId(hs)
    ELSE MapId(SubSeq(hs, 2, Len(hs)))

\* initialExpanded of the swap variant (useMemo, lines 27-32).
initialExpanded(hs) ==
    IF Len(hs) <= MIN_EXPANDED
    THEN MapId(hs)
    ELSE MapId(SubSeq(hs, 1, Len(hs) - 1))

\* initialExpanded of the permissive variant (useMemo, lines 318-323).
initialExpandedP(hs) ==
    IF Len(hs) <= MIN_EXPANDED
    THEN MapId(hs)
    ELSE MapId(SubSeq(hs, 1, Len(hs) - 1))

\* useState(new Set(initialExpanded)), by variant.
InitialExpandedSet(v, hs) ==
    IF v = "swap" THEN Range(initialExpanded(hs)) ELSE Range(initialExpandedP(hs))

\* useState(() => new Set(rows.map((r) => r.id)))
initialOpenRows(rs) == Range(rs)

\* syncRows with the set started from prev instead of empty.
syncRows_FromPrev(prev, rs) ==
    prev \cup {rs[i] : i \in DOMAIN rs}

\* syncRows without the second loop: only the rows prev has.
syncRows_KeptOnly(prev, rs) ==
    {rs[i] : i \in {j \in DOMAIN rs : rs[j] \in prev}}

\* syncRows with the test of the first loop negated and no second loop.
syncRows_Negated(prev, rs) ==
    {rs[i] : i \in {j \in DOMAIN rs : rs[j] \notin prev}}

\* The updater of the [rows] effect, swap variant (lines 39-49): first the
\* rows of the list that prev has, then every row of the list.
syncRows(prev, rs) ==
    LET kept == {rs[i] : i \in {j \in DOMAIN rs : rs[j] \in prev}}
    IN  kept \cup {rs[i] : i \in DOMAIN rs}

\* The updater of the [rows] effect, permissive variant (lines 330-340).
syncRowsP(prev, rs) ==
    LET kept == {rs[i] : i \in {j \in DOMAIN rs : rs[j] \in prev}}
    IN  kept \cup {rs[i] : i \in DOMAIN rs}

SyncRowsOf(v, prev, rs) ==
    IF v = "swap" THEN syncRows(prev, rs) ELSE syncRowsP(prev, rs)

\* toggle without "return prev" at the floor: falls through to the delete.
toggle_NoFloorReturn(prev, hs, id) ==
    LET isExpanded == id \in prev
        collapsedIds == MapId(SelectSeq(hs, LAMBDA h : h.id \notin prev))
    IN  IF isExpanded
        THEN IF Cardinality(prev) = MIN_EXPANDED /\ Len(collapsedIds) = 1
             THEN (prev \cup {collapsedIds[1]}) \ {id}
             ELSE prev \ {id}
        ELSE prev \cup {id}

\* toggle whose swap forgets next.add(collapsedId).
toggle_SwapNoAdd(prev, hs, id) ==
    LET isExpanded == id \in prev
        collapsedIds == MapId(SelectSeq(hs, LAMBDA h : h.id \notin prev))
    IN  IF isExpanded
        THEN IF Cardinality(prev) = MIN_EXPANDED
             THEN IF Len(collapsedIds) = 1 THEN prev \ {id} ELSE prev
             ELSE prev \ {id}
        ELSE prev \cup {id}

\* toggle that swaps when the one collapsed column is clicked: the clicked
\* column expands and the first expanded column collapses.
toggle_SwapOnExpand(prev, hs, id) ==
    LET isExpanded == id \in prev
        expandedIds == MapId(SelectSeq(hs, LAMBDA h : h.id \in prev))
        collapsedIds == MapId(SelectSeq(hs, LAMBDA h : h.id \notin prev))
    IN  IF isExpanded
        THEN IF Cardinality(prev) = MIN_EXPANDED
             THEN IF Len(collapsedIds) = 1
                  THEN (prev \cup {collapsedIds[1]}) \ {id}
                  ELSE prev
             ELSE prev \ {id}
        ELSE IF Len(collapsedIds) = 1 /\ Len(expandedIds) > 0
             THEN (prev \cup {id}) \ {expandedIds[1]}
             ELSE prev \cup {id}

\* toggle that never swaps: at the floor it returns prev.
toggle_NoSwap(prev, hs, id) ==
    LET isExpanded == id \in prev
    IN  IF isExpanded
        THEN IF Cardinality(prev) = MIN_EXPANDED THEN prev ELSE prev \ {id}
        ELSE prev \cup {id}

\* The updater of toggle, swap variant (lines 53-81).
toggle(prev, hs, id) ==
    LET isExpanded == id \in prev
        expandedIds == MapId(SelectSeq(hs, LAMBDA h : h.id \in prev))
        collapsedIds == MapId(SelectSeq(hs, LAMBDA h : h.id \notin prev))
    IN  IF isExpanded
        THEN IF Cardinality(prev) = MIN_EXPANDED
             THEN IF Len(collapsedIds) = 1
                  THEN (prev \cup {collapsedIds[1]}) \ {id}
                  ELSE prev
             ELSE prev \ {id}
        ELSE IF Len(collapsedIds) = 1
             THEN prev \cup {id}
             ELSE prev \cup {id}

\* toggleP with "<" for "<=" in the floor test.
toggleP_StrictLess(prev, id) ==
    LET isExpanded == id \in prev
    IN  IF isExpanded /\ Cardinality(prev) < MIN_EXPANDED
        THEN prev
        ELSE IF isExpanded THEN prev \ {id} ELSE prev \cup {id}

\* toggleP whose floor test forgets isExpanded.
toggleP_FloorAnyClick(prev, id) ==
    LET isExpanded == id \in prev
    IN  IF Cardinality(prev) <= MIN_EXPANDED
        THEN prev
        ELSE IF isExpanded THEN prev \ {id} ELSE prev \cup {id}

\* The updater of toggle, permissive variant (lines 344-356).
toggleP(prev, id) ==
    LET isExpanded == id \in prev
    IN  IF isExpanded /\ Cardinality(prev) <= MIN_EXPANDED
        THEN prev
        ELSE IF isExpanded THEN prev \ {id} ELSE prev \cup {id}

ToggleOf(v, prev, hs, id) ==
    IF v = "swap" THEN toggle(prev, hs, id) ELSE toggleP(prev, id)

(***************************************************************************)
(* Grid templates.  A template is the sequence of the tokens that the code *)
(* joins with ' '.  A token is a record: its kind, and its width as        *)
(* pct percent of the available width plus ch character units.             *)
(***************************************************************************)
Fr1 == [kind |-> "fr", pct |-> 0, ch |-> 0]                \* '1fr'
Px0 == [kind |-> "px", pct |-> 0, ch |-> 0]                \* '0px'
Pct50 == [kind |-> "pct", pct |-> 50, ch |-> 0]            \* '50%'
ChTok(w) == [kind |-> "ch", pct |-> 0, ch |-> w]           \* `${w}ch`
CalcTok(w) == [kind |-> "calc", pct |-> 50, ch |-> 0 - w]  \* `calc(50% - ${w}ch)`

\* Math.max(a, b)
MathMax(a, b) == IF a >= b THEN a ELSE b

\* getCollapsedWidthCh with Math.min for Math.max.
getCollapsedWidthCh_Min(title) ==
    IF Len(title) + 4 <= 8 THEN Len(title) + 4 ELSE 8

\* getCollapsedWidthCh of the swap variant (line 24).
getCollapsedWidthCh(title) == MathMax(Len(title) + 4, 8)

\* getCollapsedWidthCh of the permissive variant (line 315).
getCollapsedWidthChP(title) == MathMax(Len(title) + 4, 8)

\* headers.filter((h) => !expanded.has(h.id))
collapsedList(hs, exp) == SelectSeq(hs, LAMBDA h : h.id \notin exp)

\* headerTemplate of the swap variant (lines 85-105, 120).  collapsedId is
\* the id of the first collapsed header; the flag firstExpandedAssigned is
\* set at the first header whose id is not collapsedId.
headerTemplate(hs, exp) ==
    LET cl == collapsedList(hs, exp)
    IN  IF cl = <<>>
        THEN [i \in DOMAIN hs |-> Fr1]
        ELSE LET collapsedId == cl[1].id
                 collapsedWidth == getCollapsedWidthCh(cl[1].title)
                 assignedBefore(i) == \E j \in 1..(i - 1) : hs[j].id # collapsedId
             IN  [i \in DOMAIN hs |->
                    IF hs[i].id = collapsedId THEN ChTok(collapsedWidth)
                    ELSE IF ~assignedBefore(i) THEN Pct50
                    ELSE CalcTok(collapsedWidth)]

\* valueTemplate of the swap variant (lines 85-90, 107-117, 121).
valueTemplate(hs, exp) ==
    LET cl == collapsedList(hs, exp)
    IN  IF cl = <<>>
        THEN [i \in DOMAIN hs |-> Fr1]
        ELSE LET collapsedId == cl[1].id
             IN  [i \in DOMAIN hs |->
                    IF hs[i].id = collapsedId THEN Px0 ELSE Pct50]

\* headerTemplate of the permissive variant with the width of the first
\* collapsed header for every collapsed header.
headerTemplateP_FirstWidth(hs, exp) ==
    [i \in DOMAIN hs |->
        IF hs[i].id \in exp THEN Fr1
        ELSE ChTok(getCollapsedWidthChP(collapsedList(hs, exp)[1].title))]

\* headerTemplate of the permissive variant (lines 360-362).
headerTemplateP(hs, exp) ==
    [i \in DOMAIN hs |->
        IF hs[i].id \in exp THEN Fr1
        ELSE ChTok(getCollapsedWidthChP(hs[i].title))]

\* valueTemplate of the permissive variant with the collapsed headers
\* filtered out instead of mapped to '0px'.
valueTemplateP_Filtered(hs, exp) ==
    LET shown == SelectSeq(hs, LAMBDA h : h.id \in exp)
    IN  [i \in DOMAIN shown |-> Fr1]

\* valueTemplate of the permissive variant (lines 364-366).
valueTemplateP(hs, exp) ==
    [i \in DOMAIN hs |-> IF hs[i].id \in exp THEN Fr1 ELSE Px0]

HeaderTemplateOf(v, hs, exp) ==
    IF v = "swap" THEN headerTemplate(hs, exp) ELSE headerTemplateP(hs, exp)

ValueTemplateOf(v, hs, exp) ==
    IF v = "swap" THEN valueTemplate(hs, exp) ELSE valueTemplateP(hs, exp)

\* The templates of the current render (useMemo on [headers, expanded]).
HeaderTemplate == HeaderTemplateOf(variant, headers, expanded)
ValueTemplate == ValueTemplateOf(variant, headers, expanded)

(***************************************************************************)
(* State after the first render: the state hooks hold their initial        *)
(* values and the [rows] effect of the mount is scheduled.                 *)
(***************************************************************************)
Mounted(hs, rs) ==
    /\ variant \in Variants
    /\ headers = hs
    /\ rows = rs
    /\ expanded = InitialExpandedSet(variant, hs)
    /\ openRows = initialOpenRows(rs)
    /\ effectPending = TRUE
    /\ prevRowIds = {}
    /\ prevOpen = {}
    /\ lastId = NoId

(***************************************************************************)
(* Events.  The effect on [rows] is a passive effect: React runs it after  *)
(* the render that scheduled it and before the next render.  Whether a     *)
(* click can be handled in between depends on the React version and root,  *)
(* which the sources do not fix, so the model allows a click there.        *)
(***************************************************************************)
\* onClick of the header cell of id (lines 148, 376): toggle(header.id).
Toggle(id) ==
    /\ id \in HeaderIdSet
    /\ expanded' = ToggleOf(variant, expanded, headers, id)
    /\ lastId' = id
    /\ UNCHANGED <<variant, headers, rowVars>>

\* The parent renders the component with another rows array.  React runs the
\* effects of a render before the next render, and [rows] changed, so the
\* effect is scheduled again.
SetRows(newRows) ==
    /\ ~effectPending
    /\ newRows \in RowLists
    /\ prevRowIds' = Range(rows)
    /\ prevOpen' = openRows
    /\ rows' = newRows
    /\ effectPending' = TRUE
    /\ UNCHANGED <<variant, headers, openRows, colVars>>

\* The effect on [rows] if it also reset the expanded columns to
\* initialExpanded.
RowSyncEffect_ResetsExpanded ==
    /\ effectPending
    /\ openRows' = SyncRowsOf(variant, openRows, rows)
    /\ expanded' = InitialExpandedSet(variant, headers)
    /\ effectPending' = FALSE
    /\ UNCHANGED <<variant, headers, rows, prevRowIds, prevOpen, lastId>>

\* The effect on [rows] runs (lines 37-50, 328-341).
RowSyncEffect ==
    /\ effectPending
    /\ openRows' = SyncRowsOf(variant, openRows, rows)
    /\ effectPending' = FALSE
    /\ UNCHANGED <<variant, headers, rows, prevRowIds, prevOpen, colVars>>

\* onChange of the Collapse (lines 187-190, 417-420): the keys it reports are
\* keys of its panels, one per row of the current list.
SetOpenRows(keys) ==
    /\ keys \in SUBSET RowIdSet
    /\ openRows' = keys
    /\ UNCHANGED <<variant, headers, rows, effectPending, prevRowIds, prevOpen, colVars>>

\* The parent renders the component with another headers array.  The memo
\* initialExpanded is computed again (lines 27-32), but useState reads its
\* argument at the first render only (line 34): expanded is kept.  The rows
\* array is the same, so the effect on [rows] is not scheduled.
SetHeaders(newHeaders) ==
    /\ ~effectPending
    /\ newHeaders # headers
    /\ headers' = newHeaders
    /\ UNCHANGED <<variant, rowVars, colVars>>

(***************************************************************************)
(* Columns: any header list, the rows of the demo, header clicks.          *)
(***************************************************************************)
DemoRows == <<1, 2>>

InitCols == \E hs \in HeaderLists : Mounted(hs, DemoRows)

NextCols ==
    \/ \E id \in HeaderIds : Toggle(id)
    \/ RowSyncEffect

SpecCols == InitCols /\ [][NextCols]_vars

(***************************************************************************)
(* Rows: the headers of the demo, any row list, row events.                *)
(***************************************************************************)
DemoHeaders ==
    << [id |-> 1, title |-> <<"S", "t", "a", "t", "u", "s">>],
       [id |-> 2, title |-> <<"O", "w", "n", "e", "r">>],
       [id |-> 3, title |-> <<"N", "o", "t", "e", "s">>] >>

InitRows == \E rs \in RowLists : Mounted(DemoHeaders, rs)

NextRows ==
    \/ \E rs \in RowLists : SetRows(rs)
    \/ RowSyncEffect
    \/ \E keys \in SUBSET RowIds : SetOpenRows(keys)

SpecRows == InitRows /\ [][NextRows]_vars

(***************************************************************************)
(* Titles: the headers of the demo with titles of every length up to       *)
(* MaxTitleLen, header clicks.                                             *)
(***************************************************************************)
MaxTitleLen == 6

TitleInputs == Titles \cup {[i \in 1..k |-> "x"] : k \in 0..MaxTitleLen}

InitTitles ==
    \E ts \in [DOMAIN DemoHeaders -> TitleInputs] :
        Mounted([i \in DOMAIN DemoHeaders |->
                    [id |-> DemoHeaders[i].id, title |-> ts[i]]], DemoRows)

SpecTitles == InitTitles /\ [][NextCols]_vars

(***************************************************************************)
(* Both state machines together: the component of the demo of each         *)
(* variant, header clicks, row lists over the rows of the demo, row events.*)
(***************************************************************************)
\* The headers of the demo of the permissive variant (lines 473-478).
DemoHeadersP ==
    << [id |-> 1, title |-> <<"S", "t", "a", "t", "u", "s">>],
       [id |-> 2, title |-> <<"O", "w", "n", "e", "r">>],
       [id |-> 3, title |-> <<"P", "r", "o", "g", "r", "e", "s", "s">>],
       [id |-> 4, title |-> <<"N", "o", "t", "e", "s">>] >>

DemoHeadersOf(v) == IF v = "swap" THEN DemoHeaders ELSE DemoHeadersP

\* Row lists made of the rows of the demo.
DemoRowLists == DistinctSeqs(Range(DemoRows), Len(DemoRows))

InitAll ==
    \E rs \in DemoRowLists :
        /\ Mounted(DemoHeadersOf(variant), rs)

NextAll ==
    \/ \E id \in HeaderIds : Toggle(id)
    \/ \E rs \in DemoRowLists : SetRows(rs)
    \/ RowSyncEffect
    \/ \E keys \in SUBSET Range(DemoRows) : SetOpenRows(keys)

SpecAll == InitAll /\ [][NextAll]_vars

(***************************************************************************)
(* Header changes: any header list with one-character titles, header       *)
(* clicks, and renders with another header list.                           *)
(***************************************************************************)
PlainHeaderLists ==
    {hs \in HeaderLists : \A i \in DOMAIN hs : hs[i].title = <<"S">>}

InitHdr == \E hs \in PlainHeaderLists : Mounted(hs, DemoRows)

NextHdr ==
    \/ \E id \in HeaderIds : Toggle(id)
    \/ RowSyncEffect
    \/ \E hs \in PlainHeaderLists : SetHeaders(hs)

SpecHdr == InitHdr /\ [][NextHdr]_vars

(***************************************************************************)
(* Properties.                                                             *)
(***************************************************************************)
CollapsedSet == HeaderIdSet \ expanded

\* C1: with at least 2 headers, at least 2 columns are expanded in every
\* state reached by header clicks, in both variants.
C1_FloorInvariant ==
    Len(headers) >= 2 => Cardinality(expanded) >= 2

\* A click on an expanded column at the floor with two columns collapsed: the
\* swap variant has nothing to swap and keeps both expanded columns.
C1_Witness ==
    /\ variant = "swap"
    /\ Len(headers) >= 4
    /\ Cardinality(expanded) = 2
    /\ lastId \in expanded

\* C2 as stated: in the swap variant, with 3 or more headers, at most one
\* column is collapsed in every reachable state.
C2_Original ==
    (variant = "swap" /\ Len(headers) >= 3)
        => Len(headers) - Cardinality(expanded) <= 1

\* C2 as amended: in the swap variant, with exactly 3 headers, at most one
\* column is collapsed in every reachable state.
C2_SingleCollapseOfThree ==
    (variant = "swap" /\ Len(headers) = 3)
        => Len(headers) - Cardinality(expanded) <= 1

\* The clicked column of three was collapsed by the click and is the only
\* collapsed one.
C2_Witness ==
    /\ variant = "swap"
    /\ Len(headers) = 3
    /\ lastId \in HeaderIdSet
    /\ CollapsedSet = {lastId}

\* C3 as stated: when the effect on [rows] runs, the open-row set becomes the
\* rows of the new list that were open before the list changed, together
\* with the rows of the new list that the previous list did not have.
C3_Original ==
    [][RowSyncEffect =>
          openRows' = {r \in Range(rows) : r \in prevOpen}
                          \cup {r \in Range(rows) : r \notin prevRowIds}]_vars

\* C4 as stated: in the swap variant with 3 headers and one collapsed column
\* c, toggle(c) expands c and exactly one column is collapsed afterwards.
C4_Original ==
    [][\A c \in HeaderIds :
          (variant = "swap" /\ Len(headers) = 3 /\ CollapsedSet = {c} /\ Toggle(c))
              => (c \in expanded' /\ Cardinality(HeaderIdSet \ expanded') = 1)]_vars

\* C4 as amended: in the swap variant with 3 headers and one collapsed column
\* c, toggle(c) expands c and collapses nothing: all three are expanded.
C4_ExpandCollapsedOfThree ==
    [][\A c \in HeaderIds :
          (variant = "swap" /\ Len(headers) = 3 /\ CollapsedSet = {c} /\ Toggle(c))
              => (expanded' = expanded \cup {c} /\ HeaderIdSet \ expanded' = {})]_vars

\* All three columns are expanded: the latest click expanded the collapsed one.
C4_Witness ==
    /\ variant = "swap"
    /\ Len(headers) = 3
    /\ lastId \in HeaderIdSet
    /\ expanded = HeaderIdSet

\* C5: in the permissive variant, toggle of an expanded column when at most 2
\* columns are expanded leaves the expanded set as it was.
C5_PermissiveNoOpAtFloor ==
    [][\A x \in HeaderIds :
          (variant = "permissive" /\ x \in expanded
             /\ Cardinality(expanded) <= MIN_EXPANDED /\ Toggle(x))
              => expanded' = expanded]_vars

\* Three headers, two expanded, and the clicked column is still expanded: the
\* click was the no-op, and the third column is still collapsed.
C5_Witness ==
    /\ variant = "permissive"
    /\ Len(headers) = 3
    /\ Cardinality(expanded) = 2
    /\ lastId \in expanded
    /\ Cardinality(CollapsedSet) = 1

\* C6: in the permissive variant, toggle(x) of a collapsed x gives E + {x},
\* and toggle(x) of an expanded x with more than 2 expanded gives E - {x}.
C6_PermissiveToggle ==
    [][\A x \in HeaderIds :
          (variant = "permissive" /\ Toggle(x))
              => /\ x \notin expanded => expanded' = expanded \cup {x}
                 /\ (x \in expanded /\ Cardinality(expanded) > MIN_EXPANDED)
                        => expanded' = expanded \ {x}]_vars

\* Four headers, one collapsed, the clicked column expanded: the click
\* expanded it while another column was collapsed as well.
C6_Witness ==
    /\ variant = "permissive"
    /\ Len(headers) = 4
    /\ lastId \in expanded
    /\ Cardinality(CollapsedSet) = 1

\* The initial expanded set C7 states: every header id for at most 2 headers,
\* every header id but the last header's otherwise.
C7_Stated ==
    IF Len(headers) <= 2
    THEN HeaderIdSet
    ELSE HeaderIdSet \ {headers[Len(headers)].id}

\* C7: the expanded set starts as C7_Stated, and initialExpanded computes
\* that set from the headers in both variants.
C7_InitialExpanded ==
    /\ expanded = C7_Stated
    /\ [](/\ Range(initialExpanded(headers)) = C7_Stated
          /\ Range(initialExpandedP(headers)) = C7_Stated)

\* Just mounted with more than 2 headers: only the last one is collapsed.
C7_Witness ==
    /\ Len(headers) > 2
    /\ lastId = NoId
    /\ effectPending
    /\ CollapsedSet = {headers[Len(headers)].id}

\* C8: the resynchronization applied twice with the same row list gives what
\* it gives applied once, for every row list and prior open-row set.
C8_ResyncIdempotent ==
    SyncRowsOf(variant, SyncRowsOf(variant, openRows, rows), rows)
        = SyncRowsOf(variant, openRows, rows)

\* The effect has run again for a render with the rows of the previous one.
C8_Witness ==
    /\ ~effectPending
    /\ prevRowIds = RowIdSet
    /\ Len(rows) >= 2
    /\ openRows = RowIdSet

\* C9: at mount every row of the list is open, and when the effect on [rows]
\* has run every row that the previous list did not have is open; rows
\* [1,2] both open and the list [2,3] give {2,3}.
C9_NewRowsOpen ==
    /\ openRows = RowIdSet
    /\ [][RowSyncEffect =>
            /\ \A r \in Range(rows) \ prevRowIds : r \in openRows'
            /\ (prevRowIds = {1, 2} /\ openRows = {1, 2} /\ rows = <<2, 3>>)
                   => openRows' = {2, 3}]_vars

\* The list went from [1,2] to [2,3] and the effect has run.
C9_Witness ==
    /\ ~effectPending
    /\ prevRowIds = {1, 2}
    /\ rows = <<2, 3>>
    /\ openRows = {2, 3}

\* C10: once the effect on [rows] has run, the open rows are rows of the
\* current list.
C10_OpenRowsWithinRows ==
    ~effectPending => openRows \subseteq RowIdSet

\* The effect has run for a list that dropped a row of the previous list.
C10_Witness ==
    /\ ~effectPending
    /\ prevRowIds \ RowIdSet # {}
    /\ RowIdSet # {}
    /\ openRows = RowIdSet

\* C11: in every reachable state of either variant the header template and
\* the value template have one token per header.
C11_TemplateShape ==
    /\ Len(HeaderTemplate) = Len(headers)
    /\ Len(ValueTemplate) = Len(headers)

\* The permissive variant with four headers, two of them collapsed by clicks.
C11_Witness ==
    /\ variant = "permissive"
    /\ Len(headers) = 4
    /\ Cardinality(CollapsedSet) = 2
    /\ lastId \in CollapsedSet
    /\ Len(ValueTemplate) = 4

\* Positions of the expanded headers.
ExpandedPos == {i \in DOMAIN headers : headers[i].id \in expanded}

\* Sum of a sequence of integers.
RECURSIVE SeqSum(_)
SeqSum(s) == IF s = <<>> THEN 0 ELSE s[Len(s)] + SeqSum(SubSeq(s, 1, Len(s) - 1))

\* The tokens of template t at the positions P are equal shares that make up
\* the available width: all '1fr', or percentages that add up to 100.
SharesWhole(t, P) ==
    /\ \A i, j \in P : t[i] = t[j]
    /\ \/ \A i \in P : t[i].kind = "fr"
       \/ /\ \A i \in P : t[i].kind = "pct"
          /\ SeqSum([i \in DOMAIN t |-> IF i \in P THEN t[i].pct ELSE 0]) = 100

\* C12: in every reachable state of either variant the value-template token
\* of a header is '0px' exactly when the header is collapsed, and the
\* expanded headers get the same token, their shares making up the width.
C12_Original ==
    /\ \A i \in DOMAIN headers : (ValueTemplate[i] = Px0) <=> (i \notin ExpandedPos)
    /\ SharesWhole(ValueTemplate, ExpandedPos)

\* The collapsed width the specification states for a title of length n.
StatedWidth(n) == IF n + 4 > 8 THEN n + 4 ELSE 8

\* C13: in the permissive variant the header-template token of a header is
\* '1fr' if the header is expanded and otherwise the collapsed width of the
\* header's own title, which is never a zero width, for any number of
\* collapsed columns.
C13_HeaderTemplateEqualSplit ==
    variant = "permissive" =>
        \A i \in DOMAIN headers :
            /\ i \in ExpandedPos => HeaderTemplate[i] = Fr1
            /\ i \notin ExpandedPos =>
                  /\ HeaderTemplate[i] = ChTok(StatedWidth(Len(headers[i].title)))
                  /\ HeaderTemplate[i].ch > 0
                  /\ HeaderTemplate[i] # Px0

\* Two collapsed headers whose titles have different lengths.
C13_Witness ==
    /\ variant = "permissive"
    /\ lastId \in CollapsedSet
    /\ \E i, j \in DOMAIN headers :
          /\ i \notin ExpandedPos /\ j \notin ExpandedPos
          /\ Len(headers[i].title) # Len(headers[j].title)
          /\ HeaderTemplate[i] # HeaderTemplate[j]

\* C14: the collapsed width of every title is max(len + 4, 8): it is at
\* least 8 and at least len + 4 and one of the two; a title of length 1
\* gives 8 and "Status" gives 10.  Both copies of the function agree.
C14_CollapsedWidth ==
    \A i \in DOMAIN headers :
        LET t == headers[i].title
            w == getCollapsedWidthCh(t)
        IN  /\ w >= 8
            /\ w >= Len(t) + 4
            /\ w = 8 \/ w = Len(t) + 4
            /\ Len(t) = 1 => w = 8
            /\ t = <<"S", "t", "a", "t", "u", "s">> => w = 10
            /\ getCollapsedWidthChP(t) = w

\* A clicked header with a title of 4 characters is collapsed to 8ch, beside
\* a header with a longer title.
C14_Witness ==
    \E i, j \in DOMAIN headers :
        /\ lastId = headers[i].id
        /\ i \notin ExpandedPos
        /\ Len(headers[i].title) = 4
        /\ HeaderTemplate[i] = ChTok(8)
        /\ Len(headers[j].title) > 4

\* C15: in the swap variant with exactly 2 columns expanded, toggle(x) of an
\* expanded x swaps x with the one collapsed column y, so that x is the one
\* collapsed column, and changes nothing when no column is collapsed.
C15_SwapAtFloor ==
    [][\A x \in HeaderIds :
          (variant = "swap" /\ x \in expanded
             /\ Cardinality(expanded) = MIN_EXPANDED /\ Toggle(x))
              => /\ \A y \in HeaderIds :
                       CollapsedSet = {y}
                           => /\ expanded' = (expanded \ {x}) \cup {y}
                              /\ HeaderIdSet \ expanded' = {x}
                 /\ CollapsedSet = {} => expanded' = expanded]_vars

\* Three headers: the click on the first one swapped it with the collapsed one.
C15_Witness ==
    /\ variant = "swap"
    /\ Len(headers) = 3
    /\ lastId = headers[1].id
    /\ CollapsedSet = {lastId}
    /\ Cardinality(expanded) = MIN_EXPANDED

\* The width of the tokens of template t at the positions P: percent of the
\* available width and character units.
WidthAt(t, P) ==
    [pct |-> SeqSum([i \in DOMAIN t |-> IF i \in P THEN t[i].pct ELSE 0]),
     ch  |-> SeqSum([i \in DOMAIN t |-> IF i \in P THEN t[i].ch ELSE 0])]

\* C16: in the swap variant, in every reachable state with 3 or more headers
\* and a collapsed column, the first expanded column gets 50%, a collapsed
\* column gets the collapsed width of its title, the other expanded columns
\* together take the other half less the collapsed width, and the tokens add
\* up to 100% of the available width.
C16_Original ==
    (variant = "swap" /\ Len(headers) >= 3 /\ CollapsedSet # {} /\ ExpandedPos # {}) =>
        LET first == CHOOSE i \in ExpandedPos : \A j \in ExpandedPos : i <= j
            collapsedPos == DOMAIN headers \ ExpandedPos
            collapsedCh == WidthAt(HeaderTemplate, collapsedPos).ch
        IN  /\ HeaderTemplate[first] = Pct50
            /\ \A i \in collapsedPos :
                  HeaderTemplate[i] = ChTok(StatedWidth(Len(headers[i].title)))
            /\ WidthAt(HeaderTemplate, ExpandedPos \ {first})
                  = [pct |-> 50, ch |-> 0 - collapsedCh]
            /\ WidthAt(HeaderTemplate, DOMAIN headers) = [pct |-> 100, ch |-> 0]

\* C17: with fewer than 2 headers every header is expanded in every state
\* reached by header clicks, in both variants.
C17_Original ==
    Len(headers) < 2 => expanded = HeaderIdSet

\* A step of the row state machine: a new row list, the effect, or onChange.
RowStep ==
    \/ \E rs \in RowLists : SetRows(rs)
    \/ RowSyncEffect
    \/ \E keys \in SUBSET RowIds : SetOpenRows(keys)

\* C18: a row-list change, its resynchronization and setOpenRows leave the
\* expanded set and both templates unchanged; a toggle leaves the open-row
\* set unchanged; the expanded set changes only through toggle.
C18_Independence ==
    [][/\ RowStep => /\ expanded' = expanded
                     /\ HeaderTemplate' = HeaderTemplate
                     /\ ValueTemplate' = ValueTemplate
       /\ (\E id \in HeaderIds : Toggle(id)) => openRows' = openRows
       /\ expanded' # expanded => \E id \in HeaderIds : Toggle(id)]_vars

\* Columns were toggled away from the initial set, the row list changed and
\* was resynchronized, and a row was closed.
C18_Witness ==
    /\ lastId # NoId
    /\ expanded # InitialExpandedSet(variant, headers)
    /\ ~effectPending
    /\ prevRowIds # {}
    /\ prevRowIds # RowIdSet
    /\ openRows # RowIdSet

\* C19: in every reachable state, also after the header list was replaced,
\* the expanded set holds only ids of the current header list.
C19_Original ==
    expanded \subseteq HeaderIdSet

====
